---- MODULE Spec2Model ----
(***************************************************************************)
(* A model of lmdrouter's request decoder (decoder.go): UnmarshalRequest,  *)
(* unmarshalBody, unmarshalEvent, unmarshalField and the three numeric     *)
(* parameter parsers.                                                      *)
(*                                                                         *)
(* Go strings are sequences of one-character strings, so that splitting,   *)
(* lower-casing, regular-expression matching and number parsing are        *)
(* computed character by character.  Go types are named by their Go type   *)
(* expression ("int8", "*string", "[]bool", ...).                          *)
(***************************************************************************)
EXTENDS Integers, Naturals, Sequences, FiniteSets, TLC

(***************************************************************************)
(* Bounds of the model.                                                    *)
(***************************************************************************)
\* The number of fields of the target struct.
MaxFields == 2
\* The number of values a multi-value parameter carries.
MaxSeqLen == 2

(***************************************************************************)
(* Strings.                                                                *)
(***************************************************************************)
Digits == <<"0", "1", "2", "3", "4", "5", "6", "7", "8", "9">>

UpperCase == <<"A", "B", "C", "D", "E", "F", "G", "H", "I", "J", "K", "L", "M",
               "N", "O", "P", "Q", "R", "S", "T", "U", "V", "W", "X", "Y", "Z">>

LowerCase == <<"a", "b", "c", "d", "e", "f", "g", "h", "i", "j", "k", "l", "m",
               "n", "o", "p", "q", "r", "s", "t", "u", "v", "w", "x", "y", "z">>

IsDigit(c) == \E d \in 1..10 : Digits[d] = c

DigitVal(c) == (CHOOSE d \in 1..10 : Digits[d] = c) - 1

\* unicode.ToLower on one ASCII character
LowerChar(c) ==
    IF \E k \in 1..26 : UpperCase[k] = c
    THEN LowerCase[CHOOSE k \in 1..26 : UpperCase[k] = c]
    ELSE c

\* strings.ToLower
ToLower(s) == [k \in 1..Len(s) |-> LowerChar(s[k])]

HasPrefix(s, p) == Len(p) <= Len(s) /\ SubSeq(s, 1, Len(p)) = p

HasSuffix(s, p) == Len(p) <= Len(s) /\ SubSeq(s, Len(s) - Len(p) + 1, Len(s)) = p

Contains(s, p) ==
    \E k \in 0..(Len(s) - Len(p)) : SubSeq(s, k + 1, k + Len(p)) = p

\* strings.Split(s, sep) for a one-character separator
RECURSIVE Split(_, _)
Split(s, sep) ==
    IF \A k \in 1..Len(s) : s[k] # sep
    THEN <<s>>
    ELSE LET k == CHOOSE j \in 1..Len(s) :
                      s[j] = sep /\ \A h \in 1..(j - 1) : s[h] # sep
         IN  <<SubSeq(s, 1, k - 1)>> \o Split(SubSeq(s, k + 1, Len(s)), sep)

\* The regular expression `^1|true|on|enabled$`: alternation binds weaker
\* than the anchors, so the branches are ^1, true, on and enabled$.
boolRegex(s) ==
    \/ HasPrefix(s, <<"1">>)
    \/ Contains(s, <<"t", "r", "u", "e">>)
    \/ Contains(s, <<"o", "n">>)
    \/ HasSuffix(s, <<"e", "n", "a", "b", "l", "e", "d">>)

(***************************************************************************)
(* strconv.                                                                *)
(***************************************************************************)
RECURSIVE DecimalValue(_)
DecimalValue(s) ==
    IF s = <<>> THEN 0
    ELSE 10 * DecimalValue(SubSeq(s, 1, Len(s) - 1)) + DigitVal(s[Len(s)])

AllDigits(s) == \A k \in 1..Len(s) : IsDigit(s[k])

\* The longest digit string the model evaluates; every text of the model
\* is shorter, so its value lies far inside the 64-bit range and
\* strconv's range error cannot arise.
MaxDigits == 9

\* strconv.ParseUint(s, 10, 64): digits only, no sign, not empty
ParseUint(s) ==
    IF s # <<>> /\ AllDigits(s) /\ Len(s) <= MaxDigits
    THEN [ok |-> TRUE, v |-> DecimalValue(s)]
    ELSE [ok |-> FALSE, v |-> 0]

\* strconv.ParseInt(s, 10, 64): an optional sign, then ParseUint
ParseInt(s) ==
    IF s = <<>> THEN [ok |-> FALSE, v |-> 0]
    ELSE LET neg  == s[1] = "-"
             body == IF s[1] \in {"+", "-"} THEN Tail(s) ELSE s
             u    == ParseUint(body)
         IN  IF u.ok
             THEN [ok |-> TRUE, v |-> IF neg THEN 0 - u.v ELSE u.v]
             ELSE [ok |-> FALSE, v |-> 0]

\* A float64 is written as num / 10^scale with no trailing zero in the
\* fraction, or as one of the special values.
FloatZero == [special |-> "", num |-> 0, scale |-> 0]

RECURSIVE NormFloat(_, _)
NormFloat(num, scale) ==
    IF scale > 0 /\ num % 10 = 0
    THEN NormFloat(num \div 10, scale - 1)
    ELSE [special |-> "", num |-> num, scale |-> scale]

\* strconv.ParseFloat(s, 64) on decimal mantissas ("12", "-1.5", ".5", "1.")
\* and on the special words; exponents, hexadecimal mantissas and
\* underscores do not occur in the texts of the model.
ParseFloat(s) ==
    LET signed == s # <<>> /\ s[1] \in {"+", "-"}
        neg    == s # <<>> /\ s[1] = "-"
        body   == IF signed THEN Tail(s) ELSE s
        low    == ToLower(body)
        parts  == Split(body, ".")
        ip     == parts[1]
        fp     == IF Len(parts) = 2 THEN parts[2] ELSE <<>>
        mant   == ip \o fp
    IN  IF low \in {<<"i", "n", "f">>, <<"i", "n", "f", "i", "n", "i", "t", "y">>}
        THEN [ok |-> TRUE,
              v |-> [special |-> IF neg THEN "-Inf" ELSE "+Inf", num |-> 0, scale |-> 0]]
        ELSE IF ~signed /\ low = <<"n", "a", "n">>
        THEN [ok |-> TRUE, v |-> [special |-> "NaN", num |-> 0, scale |-> 0]]
        ELSE IF /\ Len(parts) <= 2
                /\ mant # <<>>
                /\ AllDigits(mant)
                /\ Len(mant) <= MaxDigits
        THEN [ok |-> TRUE,
              v |-> NormFloat(IF neg THEN 0 - DecimalValue(mant) ELSE DecimalValue(mant),
                              Len(fp))]
        ELSE [ok |-> FALSE, v |-> FloatZero]

(***************************************************************************)
(* time.Parse(time.RFC3339, s), on the UTC form "2006-01-02T15:04:05Z";     *)
(* fractional seconds and numeric zone offsets do not occur in the texts   *)
(* of the model.                                                           *)
(***************************************************************************)
DaysIn(year, month) ==
    IF month \in {4, 6, 9, 11} THEN 30
    ELSE IF month # 2 THEN 31
    ELSE IF year % 4 = 0 /\ (year % 100 # 0 \/ year % 400 = 0) THEN 29
    ELSE 28

TimeZero == [year |-> 1, month |-> 1, day |-> 1, hour |-> 0, min |-> 0, sec |-> 0]

ParseRFC3339(s) ==
    LET num(a, b) == DecimalValue(SubSeq(s, a, b))
        shape == /\ Len(s) = 20
                 /\ \A k \in {1, 2, 3, 4, 6, 7, 9, 10, 12, 13, 15, 16, 18, 19} :
                        IsDigit(s[k])
                 /\ s[5] = "-" /\ s[8] = "-" /\ s[11] = "T"
                 /\ s[14] = ":" /\ s[17] = ":" /\ s[20] = "Z"
    IN  IF /\ shape
           /\ num(6, 7) \in 1..12
           /\ num(9, 10) \in 1..DaysIn(num(1, 4), num(6, 7))
           /\ num(12, 13) < 24 /\ num(15, 16) < 60 /\ num(18, 19) < 60
        THEN [ok |-> TRUE,
              v |-> [year |-> num(1, 4), month |-> num(6, 7), day |-> num(9, 10),
                     hour |-> num(12, 13), min |-> num(15, 16), sec |-> num(18, 19)]]
        ELSE [ok |-> FALSE, v |-> TimeZero]

(***************************************************************************)
(* Go types and values (package reflect).                                  *)
(***************************************************************************)
IntKinds == {"Int", "Int8", "Int16", "Int32", "Int64"}

UintKinds == {"Uint", "Uint8", "Uint16", "Uint32", "Uint64"}

FloatKinds == {"Float32", "Float64"}

\* reflect.Type.Elem of the pointer and slice types
TypeElem(t) ==
    CASE t = "*string"    -> "string"
      [] t = "*int"       -> "int"
      [] t = "*uint"      -> "uint"
      [] t = "*float64"   -> "float64"
      [] t = "*bool"      -> "bool"
      [] t = "*time.Time" -> "time.Time"
      [] t = "*Other"     -> "Other"
      [] t = "[]string"   -> "string"
      [] t = "[]int8"     -> "int8"
      [] t = "[]uint8"    -> "uint8"
      [] t = "[]float64"  -> "float64"
      [] t = "[]bool"     -> "bool"
      [] OTHER            -> ""

\* reflect.Type.Kind
Kind(t) ==
    CASE t = "string"  -> "String"
      [] t = "int"     -> "Int"
      [] t = "int8"    -> "Int8"
      [] t = "int16"   -> "Int16"
      [] t = "int32"   -> "Int32"
      [] t = "int64"   -> "Int64"
      [] t = "uint"    -> "Uint"
      [] t = "uint8"   -> "Uint8"
      [] t = "uint16"  -> "Uint16"
      [] t = "uint32"  -> "Uint32"
      [] t = "uint64"  -> "Uint64"
      [] t = "float32" -> "Float32"
      [] t = "float64" -> "Float64"
      [] t = "bool"    -> "Bool"
      [] t \in {"*string", "*int", "*uint", "*float64", "*bool", "*time.Time", "*Other"}
                       -> "Ptr"
      [] t \in {"[]string", "[]int8", "[]uint8", "[]float64", "[]bool"}
                       -> "Slice"
      [] OTHER         -> "Struct"

\* the nil pointer, the nil slice, the nil map
Nil == [nil |-> TRUE]

\* reflect.Zero
Zero(t) ==
    CASE Kind(t) = "String"     -> <<>>
      [] Kind(t) \in IntKinds   -> 0
      [] Kind(t) \in UintKinds  -> 0
      [] Kind(t) \in FloatKinds -> FloatZero
      [] Kind(t) = "Bool"       -> FALSE
      [] Kind(t) = "Ptr"        -> Nil
      [] Kind(t) = "Slice"      -> Nil
      [] t = "time.Time"        -> TimeZero
      [] OTHER                  -> [struct |-> "zero"]

TwoTo8 == 2^8

TwoTo16 == 2^16

\* reflect.Value.SetInt: the int64 is converted to the field's own width,
\* which keeps the low bits.  Every value of the model lies inside the
\* 32-bit range, so the conversion to 32 and 64 bits leaves it as it is.
SetInt(k, x) ==
    CASE k = "Int8"  -> ((x + TwoTo8 \div 2) % TwoTo8) - TwoTo8 \div 2
      [] k = "Int16" -> ((x + TwoTo16 \div 2) % TwoTo16) - TwoTo16 \div 2
      [] OTHER       -> x

\* reflect.Value.SetUint
SetUint(k, x) ==
    CASE k = "Uint8"  -> x % TwoTo8
      [] k = "Uint16" -> x % TwoTo16
      [] OTHER        -> x

(***************************************************************************)
(* Errors.  http is TRUE for an HTTPError value, whose Code is code; a     *)
(* plain Go error (errors.New, fmt.Errorf, *time.ParseError) carries no    *)
(* status code.  subject is the name the message is formatted with.        *)
(***************************************************************************)
StatusBadRequest == 400

NoError == [kind |-> "nil", http |-> FALSE, code |-> 0, subject |-> <<>>]

PlainError(kind, subject) ==
    [kind |-> kind, http |-> FALSE, code |-> 0, subject |-> subject]

HTTPError(kind, subject) ==
    [kind |-> kind, http |-> TRUE, code |-> StatusBadRequest, subject |-> subject]

(***************************************************************************)
(* Maps.  A Go map is a function; the nil map is the empty function.       *)
(***************************************************************************)
NilMap == <<>>

\* str, ok := params[param]
Lookup(params, param) ==
    IF param \in DOMAIN params
    THEN [ok |-> TRUE, str |-> params[param]]
    ELSE [ok |-> FALSE, str |-> <<>>]

(***************************************************************************)
(* The parameter parsers.                                                  *)
(***************************************************************************)
\* parseInt64Param without its "if !ok" return: an absent parameter is
\* parsed as the empty string
parseInt64ParamUnchecked(param, str, ok) ==
    IF ~ParseInt(str).ok
    THEN [value |-> 0, err |-> HTTPError("NotAnInteger", param)]
    ELSE [value |-> ParseInt(str).v, err |-> NoError]

\* "%s must be a valid integer"
parseInt64Param(param, str, ok) ==
    IF ~ok THEN [value |-> 0, err |-> NoError]
    ELSE IF ~ParseInt(str).ok
    THEN [value |-> 0, err |-> HTTPError("NotAnInteger", param)]
    ELSE [value |-> ParseInt(str).v, err |-> NoError]

\* "%s must be a valid, positive integer"
parseUint64Param(param, str, ok) ==
    IF ~ok THEN [value |-> 0, err |-> NoError]
    ELSE IF ~ParseUint(str).ok
    THEN [value |-> 0, err |-> HTTPError("NotAPositiveInteger", param)]
    ELSE [value |-> ParseUint(str).v, err |-> NoError]

\* "%s must be a valid floating point number"
parseFloat64Param(param, str, ok) ==
    IF ~ok THEN [value |-> FloatZero, err |-> NoError]
    ELSE IF ~ParseFloat(str).ok
    THEN [value |-> FloatZero, err |-> HTTPError("NotANumber", param)]
    ELSE [value |-> ParseFloat(str).v, err |-> NoError]

(***************************************************************************)
(* unmarshalField.  The result is the error returned, the value the field  *)
(* holds afterwards (valueField when nothing was set) and whether the call *)
(* panicked.                                                               *)
(***************************************************************************)
Returned(err, value) == [err |-> err, value |-> value, panic |-> FALSE]

Panicked(value) == [err |-> NoError, value |-> value, panic |-> TRUE]

\* the key of the one-entry map the slice case builds for each element
ParamKey == <<"p", "a", "r", "a", "m">>

\* case reflect.Ptr, with val, ok := params[param] and ok true.
\* reflect.ValueOf(&val) is a *string: Convert panics unless the field's
\* type is a pointer to a type whose underlying type is string.
unmarshalPtr(typeField, valueField, val) ==
    LET ek == Kind(TypeElem(typeField))
    IN  CASE ek = "String" -> Returned(NoError, [ptr |-> val])
          [] ek \in {"Int", "Int32", "Int64", "Float32", "Float64"} ->
                 Panicked(valueField)
          [] ek = "Struct" ->
                 IF TypeElem(typeField) = "time.Time"
                 THEN IF ParseRFC3339(val).ok
                      THEN Returned(NoError, [ptr |-> ParseRFC3339(val).v])
                      ELSE Returned(PlainError("InvalidTimestamp", val), valueField)
                 ELSE Returned(NoError, valueField)
          [] ek = "Bool" -> Returned(NoError, [ptr |-> boolRegex(ToLower(val))])
          [] OTHER -> Returned(NoError, valueField)

\* the scalar cases of the switch
unmarshalScalar(typeField, valueField, params, param) ==
    LET k == Kind(typeField)
        p == Lookup(params, param)
    IN  CASE k = "String" -> Returned(NoError, p.str)
          [] k \in IntKinds ->
                 LET r == parseInt64Param(param, p.str, p.ok)
                 IN  IF r.err # NoError THEN Returned(r.err, valueField)
                     ELSE Returned(NoError, SetInt(k, r.value))
          [] k \in UintKinds ->
                 LET r == parseUint64Param(param, p.str, p.ok)
                 IN  IF r.err # NoError THEN Returned(r.err, valueField)
                     ELSE Returned(NoError, SetUint(k, r.value))
          [] k \in FloatKinds ->
                 LET r == parseFloat64Param(param, p.str, p.ok)
                 IN  IF r.err # NoError THEN Returned(r.err, valueField)
                     ELSE Returned(NoError, r.value)
          [] k = "Bool" -> Returned(NoError, boolRegex(ToLower(p.str)))
          [] k = "Ptr" ->
                 IF p.ok THEN unmarshalPtr(typeField, valueField, p.str)
                 ELSE Returned(NoError, valueField)
          [] OTHER -> Returned(NoError, valueField)

\* the conversion of the elements of a slice, in the order of strs
sliceElements(elemT, strs) ==
    [i \in 1..Len(strs) |->
        \* an element of a slice of slices finds the nil multiParam
        IF Kind(elemT) = "Slice"
        THEN Returned(NoError, Zero(elemT))
        ELSE unmarshalScalar(elemT, Zero(elemT), ParamKey :> strs[i], ParamKey)]

\* unmarshalSlice filling the slice from its end
unmarshalSliceReversed(typeField, valueField, multiParam, param) ==
    LET m == Lookup(multiParam, param)
        res == sliceElements(TypeElem(typeField), m.str)
        n == Len(m.str)
        bad == {i \in 1..n : res[i].err # NoError \/ res[i].panic}
    IN  IF ~m.ok THEN Returned(NoError, valueField)
        ELSE IF bad = {}
        THEN Returned(NoError, [elems |-> [i \in 1..n |-> res[n + 1 - i].value]])
        ELSE LET first == CHOOSE i \in bad : \A j \in bad : i <= j
             IN  [err |-> res[first].err, value |-> valueField,
                  panic |-> res[first].panic]

\* unmarshalSlice converting the elements in the field's own slice, so
\* that a failure leaves the elements converted before it
unmarshalSlicePartial(typeField, valueField, multiParam, param) ==
    LET m == Lookup(multiParam, param)
        res == sliceElements(TypeElem(typeField), m.str)
        n == Len(m.str)
        bad == {i \in 1..n : res[i].err # NoError \/ res[i].panic}
    IN  IF ~m.ok THEN Returned(NoError, valueField)
        ELSE IF bad = {}
        THEN Returned(NoError, [elems |-> [i \in 1..n |-> res[i].value]])
        ELSE LET first == CHOOSE i \in bad : \A j \in bad : i <= j
             IN  [err |-> res[first].err,
                  value |-> [elems |-> [i \in 1..n |->
                                 IF i < first THEN res[i].value
                                 ELSE Zero(TypeElem(typeField))]],
                  panic |-> res[first].panic]

\* case reflect.Slice: each element is unmarshalled from the map
\* {"param": str} under the key "param"; the first element that fails
\* ends the call before valueField.Set(slice).
unmarshalSlice(typeField, valueField, multiParam, param) ==
    LET m == Lookup(multiParam, param)
        strs == m.str
        res == sliceElements(TypeElem(typeField), strs)
        bad == {i \in 1..Len(strs) : res[i].err # NoError \/ res[i].panic}
    IN  IF ~m.ok THEN Returned(NoError, valueField)
        ELSE IF bad = {}
        THEN Returned(NoError, [elems |-> [i \in 1..Len(strs) |-> res[i].value]])
        ELSE LET first == CHOOSE i \in bad : \A j \in bad : i <= j
             IN  [err |-> res[first].err, value |-> valueField,
                  panic |-> res[first].panic]

unmarshalField(typeField, valueField, params, multiParam, param) ==
    IF Kind(typeField) = "Slice"
    THEN unmarshalSlice(typeField, valueField, multiParam, param)
    ELSE unmarshalScalar(typeField, valueField, params, param)

(***************************************************************************)
(* unmarshalEvent: one field of the target struct.                         *)
(***************************************************************************)
Query == <<"q", "u", "e", "r", "y">>

Path == <<"p", "a", "t", "h">>

Header == <<"h", "e", "a", "d", "e", "r">>

\* the switch on components[0]: the parameter maps of a location
sourceMap(r, location) ==
    CASE location = Query  -> r.QueryStringParameters
      [] location = Path   -> r.PathParameters
      [] location = Header -> r.Headers
      [] OTHER             -> NilMap

multiMap(r, location) ==
    CASE location = Query  -> r.MultiValueQueryStringParameters
      [] location = Header -> r.MultiValueHeaders
      [] OTHER             -> NilMap

\* The body of the loop for one field: the lambda tag, its components,
\* the parameter location, then unmarshalField.  name is typeField.Name.
unmarshalEventField(r, field, name, valueField) ==
    LET lambdaTag  == field.tag
        components == Split(lambdaTag, ".")
    IN  IF lambdaTag = <<>> THEN Returned(NoError, valueField)
        ELSE IF Len(components) # 2
        THEN Returned(PlainError("InvalidAnnotation", name), valueField)
        ELSE IF components[1] \notin {Query, Path, Header}
        THEN Returned(PlainError("UnknownSourceKind", name), valueField)
        ELSE unmarshalField(field.type, valueField,
                            sourceMap(r, components[1]),
                            multiMap(r, components[1]),
                            components[2])

(***************************************************************************)
(* unmarshalBody.  The request body is described by what the decoders make *)
(* of it: base64 says whether base64.StdEncoding.DecodeString accepts the  *)
(* text, json what the bytes handed to json.Unmarshal are: "malformed",    *)
(* the object "empty" ({}) or an object "full" of one member per field of  *)
(* the target.                                                             *)
(***************************************************************************)
\* the value a member of the JSON object decodes to
RECURSIVE JSONValue(_)
JSONValue(t) ==
    CASE Kind(t) = "String"     -> <<"j">>
      [] Kind(t) \in IntKinds   -> 9
      [] Kind(t) \in UintKinds  -> 9
      [] Kind(t) \in FloatKinds -> [special |-> "", num |-> 9, scale |-> 0]
      [] Kind(t) = "Bool"       -> TRUE
      [] Kind(t) = "Ptr"        -> [ptr |-> JSONValue(TypeElem(t))]
      [] Kind(t) = "Slice"      -> [elems |-> <<JSONValue(TypeElem(t))>>]
      [] t = "time.Time"        ->
             [year |-> 2009, month |-> 9, day |-> 9, hour |-> 9, min |-> 9, sec |-> 9]
      [] OTHER                  -> [struct |-> "json"]

\* json.Unmarshal(body, target): the text is checked first, then the target;
\* a JSON object does not decode into a pointer to a non-struct.
jsonUnmarshal(json, tgt, flds, values) ==
    IF json = "malformed" \/ tgt # "&struct"
    THEN [ok |-> FALSE, values |-> values]
    ELSE [ok |-> TRUE,
          values |-> IF json = "full"
                     THEN [j \in 1..Len(flds) |-> JSONValue(flds[j].type)]
                     ELSE values]

unmarshalBody(r, tgt, flds, values) ==
    IF r.IsBase64Encoded /\ ~r.Body.base64
    THEN [err |-> PlainError("PayloadDecodeError", <<>>), values |-> values]
    ELSE LET d == jsonUnmarshal(r.Body.json, tgt, flds, values)
         IN  IF d.ok THEN [err |-> NoError, values |-> d.values]
             ELSE [err |-> HTTPError("PayloadParseError", <<>>), values |-> d.values]

(***************************************************************************)
(* The inputs of a call.                                                   *)
(***************************************************************************)
\* the parameter name the requests of the model carry
KeyA == <<"a">>

\* the values of a single-value parameter: "", "1", "On", "TRUE",
\* "enabled", "0", "no", "1a", "button", "xenabled", "12", "300", "-129",
\* "1.5", "2006-01-02T15:04:05Z" and "2006-02-30T15:04:05Z"
Texts ==
    {<<>>,
     <<"1">>,
     <<"O", "n">>,
     <<"T", "R", "U", "E">>,
     <<"e", "n", "a", "b", "l", "e", "d">>,
     <<"0">>,
     <<"n", "o">>,
     <<"1", "a">>,
     <<"b", "u", "t", "t", "o", "n">>,
     <<"x", "e", "n", "a", "b", "l", "e", "d">>,
     <<"1", "2">>,
     <<"3", "0", "0">>,
     <<"-", "1", "2", "9">>,
     <<"1", ".", "5">>,
     <<"2", "0", "0", "6", "-", "0", "1", "-", "0", "2", "T", "1", "5", ":", "0", "4", ":", "0", "5", "Z">>,
     <<"2", "0", "0", "6", "-", "0", "2", "-", "3", "0", "T", "1", "5", ":", "0", "4", ":", "0", "5", "Z">>}

\* the values of a multi-value parameter: lists of "1", "x" and "300"
SeqTexts == {<<"1">>, <<"x">>, <<"3", "0", "0">>}

Lists == UNION {[1..n -> SeqTexts] : n \in 0..MaxSeqLen}

Absent == [ok |-> FALSE, str |-> <<>>]

Present(x) == [ok |-> TRUE, str |-> x]

\* what a request carries under KeyA: in the single-value map and in the
\* multi-value map of one location
Contents ==
    {[single |-> s, multi |-> Absent] : s \in {Absent} \cup {Present(x) : x \in Texts}}
    \cup {[single |-> s, multi |-> Present(l)] :
              s \in {Absent, Present(<<"1">>)}, l \in Lists}

FewContents ==
    {[single |-> s, multi |-> m] :
         s \in {Absent, Present(<<"1">>)},
         m \in {Absent, Present(<<<<"1">>, <<"x">>>>)}}

MapOf(o) == IF o.ok THEN KeyA :> o.str ELSE NilMap

\* events.APIGatewayProxyRequest with the parameters c at one location
Request(location, c, encoded, payload) ==
    [QueryStringParameters |-> IF location = Query THEN MapOf(c.single) ELSE NilMap,
     MultiValueQueryStringParameters |->
         IF location = Query THEN MapOf(c.multi) ELSE NilMap,
     PathParameters |-> IF location = Path THEN MapOf(c.single) ELSE NilMap,
     Headers |-> IF location = Header THEN MapOf(c.single) ELSE NilMap,
     MultiValueHeaders |-> IF location = Header THEN MapOf(c.multi) ELSE NilMap,
     IsBase64Encoded |-> encoded,
     Body |-> payload]

\* the tags: "query.a", "path.a", "header.a", no tag, "query", "query.a.b",
\* "query.", ".a" and "body.a"
TagQueryA == Query \o <<".", "a">>

TagPathA == Path \o <<".", "a">>

TagHeaderA == Header \o <<".", "a">>

OddTags ==
    {<<>>, Query, Query \o <<".", "a", ".", "b">>, Query \o <<".">>, <<".", "a">>,
     <<"b", "o", "d", "y", ".", "a">>}

Types ==
    {"string", "int8", "int16", "int64", "uint8", "float64", "bool",
     "*string", "*int", "*uint", "*float64", "*bool", "*time.Time", "*Other",
     "[]string", "[]int8", "[]uint8", "[]float64", "[]bool", "Other"}

\* the fields a target struct is declared with
Fields ==
    {[type |-> ty, tag |-> TagQueryA] : ty \in Types}
    \cup {[type |-> ty, tag |-> tg] :
              ty \in {"string", "int8", "*string", "[]string", "[]int8"},
              tg \in OddTags \cup {TagPathA, TagHeaderA}}

PlainField == [type |-> "int8", tag |-> TagQueryA]

\* the target structs: at most MaxFields fields, at most one of them not
\* the plain field
Structs ==
    UNION {{[j \in 1..n |-> IF j = k THEN f ELSE PlainField] :
                k \in 1..n, f \in Fields} :
           n \in 0..MaxFields}

FieldName(j) == <<"F", Digits[j + 1]>>

\* a value of the type that is neither its zero value nor JSONValue
RECURSIVE PriorValue(_)
PriorValue(t) ==
    CASE Kind(t) = "String"     -> <<"p">>
      [] Kind(t) \in IntKinds   -> 5
      [] Kind(t) \in UintKinds  -> 5
      [] Kind(t) \in FloatKinds -> [special |-> "", num |-> 5, scale |-> 0]
      [] Kind(t) = "Bool"       -> TRUE
      [] Kind(t) = "Ptr"        -> [ptr |-> PriorValue(TypeElem(t))]
      [] Kind(t) = "Slice"      -> [elems |-> <<PriorValue(TypeElem(t))>>]
      [] t = "time.Time"        ->
             [year |-> 2005, month |-> 5, day |-> 5, hour |-> 5, min |-> 5, sec |-> 5]
      [] OTHER                  -> [struct |-> "prior"]

Locations == {Query, Path, Header}

\* the bodies a call is made with
NoBody == [base64 |-> FALSE, json |-> "malformed"]

FullBody == [base64 |-> FALSE, json |-> "full"]

(***************************************************************************)
(* The state of one call of UnmarshalRequest.                              *)
(***************************************************************************)
VARIABLES
    req,      \* the request
    body,     \* the body argument
    target,   \* what the target argument is: "&struct", "nil", "struct", "&int"
    fields,   \* the declared fields of the target struct
    value,    \* the values of the fields of the target struct
    entry,    \* the values of the fields when unmarshalEvent was entered
    pc,       \* where the call is
    i,        \* the loop variable of unmarshalEvent
    err       \* the error the call returned

vars == <<req, body, target, fields, value, entry, pc, i, err>>

inputs == <<req, body, target, fields>>

\* a call of UnmarshalRequest(r, b, tgt) on a struct declared with flds,
\* its fields zeroed or filled in by the caller
Call(r, b, tgt, flds, filled) ==
    /\ req = r
    /\ body = b
    /\ target = tgt
    /\ fields = flds
    /\ value = [j \in 1..Len(flds) |->
                   IF filled THEN PriorValue(flds[j].type) ELSE Zero(flds[j].type)]
    /\ entry = <<>>
    /\ pc = "UnmarshalRequest"
    /\ i = 0
    /\ err = NoError

\* The calls of the model.  Calls without a body on a zeroed struct range
\* over every struct and every query and header of the model; calls on a struct the
\* caller filled in, or with a JSON body, range over every location and
\* fewer parameters; the malformed bodies and the invalid targets come
\* with one field each.
Init ==
    \/ \E st \in Structs, loc \in {Query, Header}, c \in Contents :
           Call(Request(loc, c, FALSE, NoBody), FALSE, "&struct", st, FALSE)
    \/ \E st \in Structs, loc \in Locations, c \in FewContents,
          b \in BOOLEAN, filled \in BOOLEAN :
           /\ loc = Path => ~c.multi.ok
           /\ Call(Request(loc, c, FALSE, IF b THEN FullBody ELSE NoBody),
                   b, "&struct", st, filled)
    \/ \E tg \in {"&struct", "nil", "struct", "&int"},
          ty \in {"string", "int8", "*time.Time"},
          e \in BOOLEAN, b64 \in BOOLEAN, js \in {"malformed", "empty", "full"} :
           /\ tg # "&struct" => ty = "string"
           /\ Call(Request(Query, [single |-> Present(<<"x">>), multi |-> Absent],
                           e, [base64 |-> b64, json |-> js]),
                   TRUE, tg,
                   IF tg = "&struct" THEN <<[type |-> ty, tag |-> TagQueryA]>> ELSE <<>>,
                   FALSE)
    \/ \E tg \in {"nil", "struct", "&int"} :
           Call(Request(Query, [single |-> Present(<<"x">>), multi |-> Absent],
                        FALSE, NoBody),
                FALSE, tg, <<>>, FALSE)

\* if body { err := unmarshalBody(req, target) ... }
UnmarshalRequest ==
    /\ pc = "UnmarshalRequest"
    /\ pc' = IF body THEN "unmarshalBody" ELSE "unmarshalEvent"
    /\ UNCHANGED <<inputs, value, entry, i, err>>

UnmarshalBody ==
    /\ pc = "unmarshalBody"
    /\ LET r == unmarshalBody(req, target, fields, value)
       IN  /\ value' = r.values
           /\ err' = r.err
           /\ pc' = IF r.err # NoError THEN "returned" ELSE "unmarshalEvent"
    /\ UNCHANGED <<inputs, entry, i>>

\* the check of the target; t.NumField() panics on a non-struct type
UnmarshalEvent ==
    /\ pc = "unmarshalEvent"
    /\ IF target \in {"nil", "struct"}
       THEN /\ err' = PlainError("InvalidTarget", <<>>)
            /\ pc' = "returned"
            /\ UNCHANGED <<entry, i>>
       ELSE IF target = "&int"
       THEN /\ pc' = "panicked"
            /\ UNCHANGED <<entry, i, err>>
       ELSE /\ pc' = "field"
            /\ i' = 1
            /\ entry' = value
            /\ err' = err
    /\ UNCHANGED <<inputs, value>>

\* one iteration of the loop over the fields
UnmarshalEventField ==
    /\ pc = "field"
    /\ i <= Len(fields)
    /\ LET r == unmarshalEventField(req, fields[i], FieldName(i), value[i])
       IN  /\ value' = [value EXCEPT ![i] = r.value]
           /\ err' = r.err
           /\ pc' = IF r.panic THEN "panicked"
                    ELSE IF r.err # NoError THEN "returned" ELSE "field"
           /\ i' = IF r.panic \/ r.err # NoError THEN i ELSE i + 1
    /\ UNCHANGED <<inputs, entry>>

\* the loop is over: return nil
UnmarshalEventReturn ==
    /\ pc = "field"
    /\ i > Len(fields)
    /\ pc' = "returned"
    /\ err' = NoError
    /\ UNCHANGED <<inputs, value, entry, i>>

Next ==
    \/ UnmarshalRequest
    \/ UnmarshalBody
    \/ UnmarshalEvent
    \/ UnmarshalEventField
    \/ UnmarshalEventReturn

Spec == Init /\ [][Next]_vars

(***************************************************************************)
(* What the properties speak of.                                           *)
(***************************************************************************)
\* the loop of unmarshalEvent went past field j without an error
Bound(j) == pc \in {"field", "returned"} /\ 1 <= j /\ j < i

\* the call returned the error of field j
Failed(j) == pc = "returned" /\ err # NoError /\ 1 <= j /\ i = j

\* the call panicked in field j
PanickedAt(j) == pc = "panicked" /\ 1 <= j /\ i = j

\* field j has a tag of two components that names a parameter location
WellTagged(j) ==
    /\ Len(Split(fields[j].tag, ".")) = 2
    /\ Split(fields[j].tag, ".")[1] \in Locations

LocationOf(j) == Split(fields[j].tag, ".")[1]

KeyOf(j) == Split(fields[j].tag, ".")[2]

\* the raw text of field j in the single-value map of its location
Single(j) == Lookup(sourceMap(req, LocationOf(j)), KeyOf(j))

\* the raw texts of field j in the multi-value map of its location
Multi(j) == Lookup(multiMap(req, LocationOf(j)), KeyOf(j))

FieldsOf(types) == {j \in 1..Len(fields) : fields[j].type \in types}

ScalarTypes == {"string", "int8", "int16", "int64", "uint8", "float64", "bool"}

SliceTypes == {"[]string", "[]int8", "[]uint8", "[]float64", "[]bool"}

(***************************************************************************)
(* C1.  Boolean conversion yields true exactly when the lower-cased raw    *)
(* text is one of the whole tokens "1", "true", "on", "enabled": a bool    *)
(* field holds that truth value of its raw text (false when the key is     *)
(* absent), a *bool field whose key is present points to it, and every     *)
(* element of a []bool field holds it for its own raw text; none of these  *)
(* fields returns an error.                                                *)
(***************************************************************************)
BoolTokens ==
    {<<"1">>, <<"t", "r", "u", "e">>, <<"o", "n">>,
     <<"e", "n", "a", "b", "l", "e", "d">>}

IsBoolToken(s) == ToLower(s) \in BoolTokens

C1_BoolMatchesWholeTokens ==
    /\ \A j \in FieldsOf({"bool", "*bool", "[]bool"}) :
           WellTagged(j) => ~Failed(j) /\ ~PanickedAt(j)
    /\ \A j \in FieldsOf({"bool"}) :
           Bound(j) /\ WellTagged(j) => value[j] = IsBoolToken(Single(j).str)
    /\ \A j \in FieldsOf({"*bool"}) :
           Bound(j) /\ WellTagged(j) /\ Single(j).ok
               => value[j] = [ptr |-> IsBoolToken(Single(j).str)]
    /\ \A j \in FieldsOf({"[]bool"}) :
           Bound(j) /\ WellTagged(j) /\ Multi(j).ok
               => /\ value[j] # Nil
                  /\ Len(value[j].elems) = Len(Multi(j).str)
                  /\ \A k \in 1..Len(Multi(j).str) :
                         value[j].elems[k] = IsBoolToken(Multi(j).str[k])

(***************************************************************************)
(* C2.  A tagged scalar field (string, integer, unsigned integer, float,   *)
(* bool) whose key is absent from the single-value map of its location     *)
(* returns no error and holds the zero value of its type once the loop is  *)
(* past it, whatever it held when unmarshalEvent was entered.              *)
(***************************************************************************)
AbsentScalar(j) ==
    /\ fields[j].type \in ScalarTypes
    /\ WellTagged(j)
    /\ ~Single(j).ok

C2_AbsentScalarIsZero ==
    \A j \in 1..Len(fields) :
        AbsentScalar(j) =>
            /\ ~Failed(j)
            /\ ~PanickedAt(j)
            /\ Bound(j) => value[j] = Zero(fields[j].type)

\* an integer field that unmarshalBody had set from the JSON body and the
\* loop zeroed
C2_Witness ==
    \E j \in 1..Len(fields) :
        /\ AbsentScalar(j)
        /\ Bound(j)
        /\ body
        /\ fields[j].type = "int8"
        /\ entry[j] = JSONValue(fields[j].type)
        /\ entry[j] # Zero(fields[j].type)
        /\ value[j] = Zero(fields[j].type)

(***************************************************************************)
(* C3.  A slice field tagged with the location query or header: when the   *)
(* key is in the multi-value map and every element converts, the field     *)
(* holds as many elements as the list, the k-th being the conversion of    *)
(* the k-th text; when the key is not in the multi-value map, the field    *)
(* holds what it held when unmarshalEvent was entered, also when the key   *)
(* is in the single-value map.                                             *)
(***************************************************************************)
\* what a scalar field of type t makes of the raw text s
Converted(t, s) == unmarshalField(t, Zero(t), KeyA :> s, NilMap, KeyA)

Converts(t, s) == Converted(t, s).err = NoError /\ ~Converted(t, s).panic

AllConvert(j) ==
    \A k \in 1..Len(Multi(j).str) : Converts(TypeElem(fields[j].type), Multi(j).str[k])

MultiSlice(j) ==
    /\ fields[j].type \in SliceTypes
    /\ WellTagged(j)
    /\ LocationOf(j) \in {Query, Header}

C3_SliceFollowsMultiMap ==
    \A j \in 1..Len(fields) :
        MultiSlice(j) =>
            /\ Multi(j).ok /\ AllConvert(j) => ~Failed(j) /\ ~PanickedAt(j)
            /\ Bound(j) /\ Multi(j).ok /\ AllConvert(j) =>
                   /\ value[j] # Nil
                   /\ Len(value[j].elems) = Len(Multi(j).str)
                   /\ \A k \in 1..Len(Multi(j).str) :
                          value[j].elems[k] =
                              Converted(TypeElem(fields[j].type), Multi(j).str[k]).value
            /\ ~Multi(j).ok =>
                   /\ ~Failed(j) /\ ~PanickedAt(j)
                   /\ Bound(j) => value[j] = entry[j]

\* a slice of two different elements, in the order of the list
C3_Witness ==
    \E j \in 1..Len(fields) :
        /\ MultiSlice(j)
        /\ Bound(j)
        /\ Multi(j).ok
        /\ Len(Multi(j).str) >= 2
        /\ Multi(j).str[1] # Multi(j).str[2]
        /\ value[j] # Nil
        /\ value[j] # entry[j]
        /\ value[j].elems[1] # value[j].elems[2]

\* a slice the caller filled in, left alone although the single-value map
\* has the key
C3_WitnessAbsent ==
    \E j \in 1..Len(fields) :
        /\ MultiSlice(j)
        /\ Bound(j)
        /\ ~Multi(j).ok
        /\ Single(j).ok
        /\ value[j] # Nil

(***************************************************************************)
(* C5.  unmarshalEvent visits the fields in declared order and stops at    *)
(* the first error: when the call returns the error of field i, every      *)
(* field before i binds without an error and holds its bound value, the    *)
(* error is the one field i produces, and field i and every field after    *)
(* it hold what they held when unmarshalEvent was entered.                 *)
(***************************************************************************)
\* what the loop body makes of field j alone
Binding(j) == unmarshalEventField(req, fields[j], FieldName(j), entry[j])

C5_FailFastNoRollback ==
    \A j \in 1..Len(fields) :
        /\ Bound(j) =>
               /\ Binding(j).err = NoError
               /\ ~Binding(j).panic
               /\ value[j] = Binding(j).value
        /\ Failed(j) =>
               /\ Binding(j).err = err
               /\ \A k \in j..Len(fields) : value[k] = entry[k]
        /\ pc = "field" /\ j >= i => value[j] = entry[j]

\* the second field is a slice whose second element fails; the first field
\* was bound to a new value
C5_Witness ==
    /\ Failed(2)
    /\ MultiSlice(2)
    /\ Multi(2).ok
    /\ Len(Multi(2).str) >= 2
    /\ Converts(TypeElem(fields[2].type), Multi(2).str[1])
    /\ entry[2] # Nil
    /\ value[1] # entry[1]

(***************************************************************************)
(* C4.  Every error the call returns carries the status of its trigger:    *)
(* bad request (an HTTPError with StatusBadRequest) for a body that is     *)
(* not base64, a body that is not the JSON of the target, a number that    *)
(* does not parse and a timestamp that does not parse; no bad request      *)
(* status for an invalid target (also when the body is unmarshalled        *)
(* first), an invalid tag and an unknown parameter location.               *)
(***************************************************************************)
IsBadRequest(e) == e.http /\ e.code = StatusBadRequest

BadRequestKinds ==
    {"PayloadDecodeError", "PayloadParseError", "NotAnInteger",
     "NotAPositiveInteger", "NotANumber", "InvalidTimestamp"}

ConfigurationKinds == {"InvalidTarget", "InvalidAnnotation", "UnknownSourceKind"}

\* the body decodes and is the JSON of an object
SoundBody ==
    /\ req.IsBase64Encoded => req.Body.base64
    /\ req.Body.json # "malformed"

C4_StatusFollowsTrigger ==
    pc = "returned" /\ err # NoError =>
        /\ err.kind \in BadRequestKinds => IsBadRequest(err)
        /\ err.kind \in ConfigurationKinds => ~IsBadRequest(err)
        /\ target \in {"nil", "struct"} /\ (body => SoundBody) => ~IsBadRequest(err)

(***************************************************************************)
(* C6.  A field declared as a pointer to string, int, float64, bool or     *)
(* time.Time: when the key is absent from the single-value map the field   *)
(* is left as it was and no error is returned; when the key is present,    *)
(* the raw text is converted as a scalar of the element type is (as        *)
(* RFC 3339 for time.Time): the field then points to the parsed value, or  *)
(* the conversion error is returned and the field is left as it was.       *)
(***************************************************************************)
OptionalTypes == {"*string", "*int", "*float64", "*bool", "*time.Time"}

\* the conversion of the raw text s to the element type of a pointer type
Parsed(t, s) ==
    CASE t = "*string"    -> [ok |-> TRUE, v |-> s, kind |-> "nil"]
      [] t = "*int"       -> [ok |-> ParseInt(s).ok, v |-> ParseInt(s).v,
                              kind |-> "NotAnInteger"]
      [] t = "*float64"   -> [ok |-> ParseFloat(s).ok, v |-> ParseFloat(s).v,
                              kind |-> "NotANumber"]
      [] t = "*bool"      -> [ok |-> TRUE, v |-> boolRegex(ToLower(s)), kind |-> "nil"]
      [] t = "*time.Time" -> [ok |-> ParseRFC3339(s).ok, v |-> ParseRFC3339(s).v,
                              kind |-> "InvalidTimestamp"]

C6_OptionalFollowsScalarRule ==
    \A j \in FieldsOf(OptionalTypes) :
        WellTagged(j) =>
            LET p == Parsed(fields[j].type, Single(j).str)
            IN  /\ ~PanickedAt(j)
                /\ ~Single(j).ok =>
                       /\ ~Failed(j)
                       /\ Bound(j) => value[j] = entry[j]
                /\ Single(j).ok /\ p.ok =>
                       /\ ~Failed(j)
                       /\ Bound(j) => value[j] = [ptr |-> p.v]
                /\ Single(j).ok /\ ~p.ok =>
                       /\ ~Bound(j)
                       /\ Failed(j) => err.kind = p.kind /\ value[j] = entry[j]

(***************************************************************************)
(* C7.  An integer or unsigned integer field of any width whose raw text   *)
(* is a valid base-10 literal returns no error and holds the number the    *)
(* literal denotes; a literal that does not fit the width of the field is  *)
(* never stored as another number.                                         *)
(***************************************************************************)
IntegerTypes == {"int8", "int16", "int64"}

UnsignedTypes == {"uint8"}

\* the number a literal denotes, whatever the width of the field
Literal(t, s) == IF t \in UnsignedTypes THEN ParseUint(s) ELSE ParseInt(s)

C7_IntegerHoldsLiteral ==
    \A j \in FieldsOf(IntegerTypes \cup UnsignedTypes) :
        WellTagged(j) /\ Single(j).ok /\ Literal(fields[j].type, Single(j).str).ok =>
            /\ ~Failed(j)
            /\ Bound(j) => value[j] = Literal(fields[j].type, Single(j).str).v

(***************************************************************************)
(* C8.  A slice field whose tag names the location path, which has no      *)
(* multi-value map, makes the call fail with an unknown-location error     *)
(* that is no bad request; the loop never goes past it.                    *)
(***************************************************************************)
C8_PathSliceIsRejected ==
    \A j \in FieldsOf(SliceTypes) :
        WellTagged(j) /\ LocationOf(j) = Path =>
            /\ ~Bound(j)
            /\ Failed(j) => err.kind = "UnknownSourceKind" /\ ~IsBadRequest(err)

(***************************************************************************)
(* C9.  A tag is rejected with an invalid-tag error, before anything is    *)
(* looked up or written, unless splitting it on "." gives exactly two      *)
(* components that are both non-empty; a field without a tag is skipped    *)
(* without an error and is not written.                                    *)
(***************************************************************************)
TwoNonEmptyComponents(tag) ==
    /\ Len(Split(tag, ".")) = 2
    /\ Split(tag, ".")[1] # <<>>
    /\ Split(tag, ".")[2] # <<>>

C9_TagNeedsTwoNonEmptyComponents ==
    \A j \in 1..Len(fields) :
        /\ fields[j].tag # <<>> /\ ~TwoNonEmptyComponents(fields[j].tag) =>
               /\ ~Bound(j)
               /\ ~PanickedAt(j)
               /\ Failed(j) => err.kind = "InvalidAnnotation" /\ value[j] = entry[j]
        /\ fields[j].tag = <<>> =>
               /\ ~Failed(j)
               /\ ~PanickedAt(j)
               /\ Bound(j) => value[j] = entry[j]

(***************************************************************************)
(* C10.  When an element of a slice of integers, unsigned integers or      *)
(* floats does not convert, the call returns the error a scalar field of   *)
(* the element type returns for that text under the same key: the same     *)
(* kind, a bad request, its message naming the key of the tag.             *)
(***************************************************************************)
NumericSliceTypes == {"[]int8", "[]uint8", "[]float64"}

\* the error of a scalar field of type t tagged with key, for the text s
ScalarError(t, key, s) == unmarshalField(t, Zero(t), key :> s, NilMap, key).err

C10_ElementErrorNamesTheField ==
    \A j \in FieldsOf(NumericSliceTypes) :
        MultiSlice(j) /\ Multi(j).ok /\ ~AllConvert(j) =>
            /\ ~Bound(j)
            /\ Failed(j) =>
                   LET bad == {k \in 1..Len(Multi(j).str) :
                                  ~Converts(TypeElem(fields[j].type), Multi(j).str[k])}
                       first == CHOOSE k \in bad : \A h \in bad : k <= h
                   IN  /\ IsBadRequest(err)
                       /\ err.subject = KeyOf(j)
                       /\ err = ScalarError(TypeElem(fields[j].type), KeyOf(j),
                                            Multi(j).str[first])
====
